---- MODULE Spec2Model ----
(***************************************************************************)
(* Model of src/src/main.cpp: a GLFW/GLAD program that creates one window, *)
(* sets the viewport, registers a framebuffer-resize callback and runs a   *)
(* render loop (processInput, clear, swap, poll) until the window's        *)
(* should-close flag is set.                                                *)
(*                                                                         *)
(* The program is one thread.  pc is its position in main().  The window   *)
(* system is the environment: it produces resize, key and close events     *)
(* that wait in the event queue until glfwPollEvents dispatches them.      *)
(* The GLFW/GL calls are modelled by their documented effect on the state  *)
(* the program can observe.                                                *)
(***************************************************************************)
EXTENDS Integers, Sequences, FiniteSets, TLC

VARIABLES
    pc,              \* position of main()
    initResult,      \* "none" before line 29, then the result of glfwInit(): "ok" | "fail"
    hints,           \* window hints in effect in the library
    window,          \* "none" before line 46, then "NULL" | "WIN" | "DESTROYED"
    contextCurrent,  \* glfwMakeContextCurrent(window) has run
    gladResult,      \* "none" before line 59, then "ok" | "fail"
    viewport,        \* <<>> until a glViewport call, then <<x, y, w, h>>
    callback,        \* the registered framebuffer-size callback, or "NULL"
    shouldClose,     \* the window's close-requested flag
    keyState,        \* GLFW's cached state of GLFW_KEY_ESCAPE (what glfwGetKey returns)
    clearColor,      \* <<>> until glClearColor, then <<r, g, b, a>> in tenths
    out,             \* lines written to std::cout
    ret,             \* <<>> until main returns, then <<code>>
    terminateCalls,  \* number of glfwTerminate() calls
    \* environment (window system)
    events,          \* pending events, oldest first
    fbSize,          \* the window's current drawable size <<w, h>>
    physKey,         \* the physical state of the Escape key
    nEvents,         \* events produced so far (bounded by MaxEvents)
    \* observation of the run
    bootLog,         \* bootstrap calls made so far, in order
    iter,            \* number of loop bodies entered
    frameSteps,      \* steps done in the current loop body, in order
    resizeLog,       \* sizes passed to framebuffer_size_callback, in order
    cbContexts,      \* the values of pc at which framebuffer_size_callback ran
    osCloseSeen,     \* glfwPollEvents has dispatched a close request
    escSeenIter,     \* iteration whose processInput saw Escape pressed (0: none)
    escPressIter     \* iteration during which Escape was last pressed (0: none)

vars == <<pc, initResult, hints, window, contextCurrent, gladResult, viewport,
          callback, shouldClose, keyState, clearColor, out, ret, terminateCalls,
          events, fbSize, physKey, nEvents, bootLog, iter, frameSteps, resizeLog,
          cbContexts, osCloseSeen, escSeenIter, escPressIter>>

progVars == <<initResult, hints, window, contextCurrent, gladResult, viewport,
              callback, shouldClose, keyState, clearColor, out, ret, terminateCalls>>

envVars == <<events, fbSize, physKey, nEvents, escPressIter>>

obsVars == <<bootLog, iter, frameSteps, resizeLog, cbContexts, osCloseSeen, escSeenIter>>

----------------------------------------------------------------------------
(* Bounds of the model *)

\* loop bodies entered in one run
MaxIter == 3

\* events the window system produces in one run
MaxEvents == 3

(* Program constants *)

width == 800

height == 600

MsgWindowFailed == "Window Creation Failed\n"

MsgGladFailed == "Failed to initialized GLAD\n"

\* glfwWindowHint calls of lines 31-39
RequestedHints ==
    { <<"CONTEXT_VERSION_MAJOR", 3>>, <<"CONTEXT_VERSION_MINOR", 3>>,
      <<"OPENGL_PROFILE", "CORE">>, <<"OPENGL_FORWARD_COMPAT", "TRUE">> }

\* glClearColor(0.5f, 0.2f, 0.3f, 1.0f), in tenths
ClearColorValue == <<5, 2, 3, 10>>

(* Inputs of the environment *)

\* drawable sizes a resize event can carry (w, h >= 0)
ResizeSizes == { <<0, 0>>, <<640, 480>>, <<1024, 768>> }

\* drawable size of the new window: the requested size, or twice that on a
\* high-DPI display
InitialSizes == { <<width, height>>, <<2 * width, 2 * height>> }

BootOrder == <<"glfwInit", "glfwWindowHint", "glfwCreateWindow", "glfwMakeContextCurrent",
               "gladLoadGLLoader", "glViewport", "glfwSetFramebufferSizeCallback">>

FrameOrder == <<"processInput", "glClearColor", "glClear", "glfwSwapBuffers", "glfwPollEvents">>

BodyPcs == {"processInput", "clearColor", "clear", "swap", "poll"}

----------------------------------------------------------------------------
(* Pure parts of the program *)

\* variant of glViewport: width and height exchanged
glViewport_Swapped(old, x, y, w, h) == IF w >= 0 /\ h >= 0 THEN <<x, y, h, w>> ELSE old

\* glViewport(x, y, w, h): negative extents are rejected (GL_INVALID_VALUE)
glViewport(old, x, y, w, h) == IF w >= 0 /\ h >= 0 THEN <<x, y, w, h>> ELSE old

\* variant of framebuffer_size_callback: the viewport is left alone
framebuffer_size_callback_Ignores(old, w, h) == old

\* framebuffer_size_callback, lines 132-134
framebuffer_size_callback(old, w, h) == glViewport(old, 0, 0, w, h)

\* variant of processInput: the key is read but the flag is not set
processInput_NoClose(key, flag) == flag

\* processInput, lines 139-145: the new value of the close-requested flag
processInput(key, flag) == IF key = "PRESS" THEN TRUE ELSE flag

\* variant of the loop condition: the negation is missing
LoopContinues_Inverted(flag) == flag

\* the loop condition of line 89
LoopContinues(flag) == ~flag

\* variant of the window test: the NULL test is missing
AfterCreate_NoNullCheck(w) == "makeCurrent"

\* the main() position after the window == NULL test of line 47
AfterCreate(w) == IF w = "NULL" THEN "windowFailed" ELSE "makeCurrent"

\* variant of the loader test: the result is not looked at
AfterLoad_Ignore(r) == "viewport"

\* the main() position after the gladLoadGLLoader test of line 59
AfterLoad(r) == IF r = "ok" THEN "viewport" ELSE "gladFailed"

----------------------------------------------------------------------------
Init ==
    /\ pc = "init"
    /\ initResult = "none"
    /\ hints = {}
    /\ window = "none"
    /\ contextCurrent = FALSE
    /\ gladResult = "none"
    /\ viewport = <<>>
    /\ callback = "NULL"
    /\ shouldClose = FALSE
    /\ keyState = "RELEASE"
    /\ clearColor = <<>>
    /\ out = <<>>
    /\ ret = <<>>
    /\ terminateCalls = 0
    /\ events = <<>>
    /\ fbSize = <<0, 0>>
    /\ physKey = "RELEASE"
    /\ nEvents = 0
    /\ bootLog = <<>>
    /\ iter = 0
    /\ frameSteps = <<>>
    /\ resizeLog = <<>>
    /\ cbContexts = {}
    /\ osCloseSeen = FALSE
    /\ escSeenIter = 0
    /\ escPressIter = 0

----------------------------------------------------------------------------
(* Bootstrap, lines 29-81 *)

\* line 29: glfwInit(); the result is not looked at
GlfwInit ==
    /\ pc = "init"
    /\ \/ initResult' = "ok"
       \/ initResult' = "fail"
    /\ bootLog' = Append(bootLog, "glfwInit")
    /\ pc' = "hints"
    /\ UNCHANGED <<hints, window, contextCurrent, gladResult, viewport, callback,
                   shouldClose, keyState, clearColor, out, ret, terminateCalls>>
    /\ UNCHANGED envVars
    /\ UNCHANGED <<iter, frameSteps, resizeLog, cbContexts, osCloseSeen, escSeenIter>>

\* lines 31-39: the four glfwWindowHint calls; without an initialized library
\* a call only raises GLFW_NOT_INITIALIZED
WindowHints ==
    /\ pc = "hints"
    /\ hints' = IF initResult = "ok" THEN RequestedHints ELSE hints
    /\ bootLog' = Append(bootLog, "glfwWindowHint")
    /\ pc' = "create"
    /\ UNCHANGED <<initResult, window, contextCurrent, gladResult, viewport, callback,
                   shouldClose, keyState, clearColor, out, ret, terminateCalls>>
    /\ UNCHANGED envVars
    /\ UNCHANGED <<iter, frameSteps, resizeLog, cbContexts, osCloseSeen, escSeenIter>>

\* lines 42-47: glfwCreateWindow(800, 600, "OpenGL Window", NULL, NULL) and the
\* NULL test; without an initialized library the call returns NULL
CreateWindow ==
    /\ pc = "create"
    /\ \E w \in (IF initResult = "ok" THEN {"WIN", "NULL"} ELSE {"NULL"}) :
          /\ window' = w
          /\ pc' = AfterCreate(w)
          /\ fbSize' \in (IF w = "WIN" THEN InitialSizes ELSE {fbSize})
    /\ bootLog' = Append(bootLog, "glfwCreateWindow")
    /\ UNCHANGED <<initResult, hints, contextCurrent, gladResult, viewport, callback,
                   shouldClose, keyState, clearColor, out, ret, terminateCalls>>
    /\ UNCHANGED <<events, physKey, nEvents, escPressIter>>
    /\ UNCHANGED <<iter, frameSteps, resizeLog, cbContexts, osCloseSeen, escSeenIter>>

\* variant of WindowFailed: glfwTerminate() is left out
WindowFailed_NoTerminate ==
    /\ pc = "windowFailed"
    /\ out' = Append(out, MsgWindowFailed)
    /\ ret' = <<-1>>
    /\ pc' = "done"
    /\ UNCHANGED <<initResult, hints, window, contextCurrent, gladResult, viewport, callback,
                   shouldClose, keyState, clearColor, terminateCalls>>
    /\ UNCHANGED envVars
    /\ UNCHANGED obsVars

\* lines 48-52: print, glfwTerminate(), return -1
WindowFailed ==
    /\ pc = "windowFailed"
    /\ out' = Append(out, MsgWindowFailed)
    /\ terminateCalls' = terminateCalls + 1
    /\ ret' = <<-1>>
    /\ pc' = "done"
    /\ UNCHANGED <<initResult, hints, window, contextCurrent, gladResult, viewport, callback,
                   shouldClose, keyState, clearColor>>
    /\ UNCHANGED envVars
    /\ UNCHANGED obsVars

\* line 55: glfwMakeContextCurrent(window)
MakeContextCurrent ==
    /\ pc = "makeCurrent"
    /\ contextCurrent' = TRUE
    /\ bootLog' = Append(bootLog, "glfwMakeContextCurrent")
    /\ pc' = "loadGL"
    /\ UNCHANGED <<initResult, hints, window, gladResult, viewport, callback,
                   shouldClose, keyState, clearColor, out, ret, terminateCalls>>
    /\ UNCHANGED envVars
    /\ UNCHANGED <<iter, frameSteps, resizeLog, cbContexts, osCloseSeen, escSeenIter>>

\* line 59: gladLoadGLLoader(...) and the test of its result
LoadGL ==
    /\ pc = "loadGL"
    /\ \E r \in {"ok", "fail"} :
          /\ gladResult' = r
          /\ pc' = AfterLoad(r)
    /\ bootLog' = Append(bootLog, "gladLoadGLLoader")
    /\ UNCHANGED <<initResult, hints, window, contextCurrent, viewport, callback,
                   shouldClose, keyState, clearColor, out, ret, terminateCalls>>
    /\ UNCHANGED envVars
    /\ UNCHANGED <<iter, frameSteps, resizeLog, cbContexts, osCloseSeen, escSeenIter>>

\* variant of GladFailed: glfwTerminate() is called before returning
GladFailed_Terminates ==
    /\ pc = "gladFailed"
    /\ out' = Append(out, MsgGladFailed)
    /\ terminateCalls' = terminateCalls + 1
    /\ window' = "DESTROYED"
    /\ contextCurrent' = FALSE
    /\ ret' = <<-1>>
    /\ pc' = "done"
    /\ UNCHANGED <<initResult, hints, gladResult, viewport, callback, shouldClose,
                   keyState, clearColor>>
    /\ UNCHANGED envVars
    /\ UNCHANGED obsVars

\* lines 60-63: print and return -1; glfwTerminate is not called
GladFailed ==
    /\ pc = "gladFailed"
    /\ out' = Append(out, MsgGladFailed)
    /\ ret' = <<-1>>
    /\ pc' = "done"
    /\ UNCHANGED <<initResult, hints, window, contextCurrent, gladResult, viewport,
                   callback, shouldClose, keyState, clearColor, terminateCalls>>
    /\ UNCHANGED envVars
    /\ UNCHANGED obsVars

\* line 67: glViewport(0, 0, width, height)
InitialViewport ==
    /\ pc = "viewport"
    /\ viewport' = glViewport(viewport, 0, 0, width, height)
    /\ bootLog' = Append(bootLog, "glViewport")
    /\ pc' = "setCallback"
    /\ UNCHANGED <<initResult, hints, window, contextCurrent, gladResult, callback,
                   shouldClose, keyState, clearColor, out, ret, terminateCalls>>
    /\ UNCHANGED envVars
    /\ UNCHANGED <<iter, frameSteps, resizeLog, cbContexts, osCloseSeen, escSeenIter>>

\* line 81: glfwSetFramebufferSizeCallback(window, framebuffer_size_callback)
SetFramebufferSizeCallback ==
    /\ pc = "setCallback"
    /\ callback' = "framebuffer_size_callback"
    /\ bootLog' = Append(bootLog, "glfwSetFramebufferSizeCallback")
    /\ pc' = "loopTest"
    /\ UNCHANGED <<initResult, hints, window, contextCurrent, gladResult, viewport,
                   shouldClose, keyState, clearColor, out, ret, terminateCalls>>
    /\ UNCHANGED envVars
    /\ UNCHANGED <<iter, frameSteps, resizeLog, cbContexts, osCloseSeen, escSeenIter>>

----------------------------------------------------------------------------
(* The render loop, lines 89-123 *)

\* line 89, condition true: enter the loop body
LoopEnter ==
    /\ pc = "loopTest"
    /\ LoopContinues(shouldClose)
    /\ iter < MaxIter
    /\ iter' = iter + 1
    /\ frameSteps' = <<>>
    /\ pc' = "processInput"
    /\ UNCHANGED progVars
    /\ UNCHANGED envVars
    /\ UNCHANGED <<bootLog, resizeLog, cbContexts, osCloseSeen, escSeenIter>>

\* line 89, condition false: leave the loop
LoopExit ==
    /\ pc = "loopTest"
    /\ ~LoopContinues(shouldClose)
    /\ pc' = "terminate"
    /\ UNCHANGED progVars
    /\ UNCHANGED envVars
    /\ UNCHANGED obsVars

\* variant of ProcessInput: a pressed Escape leaves the loop body at once
ProcessInput_EarlyExit ==
    /\ pc = "processInput"
    /\ shouldClose' = processInput(keyState, shouldClose)
    /\ escSeenIter' = IF keyState = "PRESS" /\ escSeenIter = 0 THEN iter ELSE escSeenIter
    /\ frameSteps' = Append(frameSteps, "processInput")
    /\ pc' = IF keyState = "PRESS" THEN "loopTest" ELSE "clearColor"
    /\ UNCHANGED <<initResult, hints, window, contextCurrent, gladResult, viewport,
                   callback, keyState, clearColor, out, ret, terminateCalls>>
    /\ UNCHANGED envVars
    /\ UNCHANGED <<bootLog, iter, resizeLog, cbContexts, osCloseSeen>>

\* line 92: processInput(window)
ProcessInput ==
    /\ pc = "processInput"
    /\ shouldClose' = processInput(keyState, shouldClose)
    /\ escSeenIter' = IF keyState = "PRESS" /\ escSeenIter = 0 THEN iter ELSE escSeenIter
    /\ frameSteps' = Append(frameSteps, "processInput")
    /\ pc' = "clearColor"
    /\ UNCHANGED <<initResult, hints, window, contextCurrent, gladResult, viewport,
                   callback, keyState, clearColor, out, ret, terminateCalls>>
    /\ UNCHANGED envVars
    /\ UNCHANGED <<bootLog, iter, resizeLog, cbContexts, osCloseSeen>>

\* line 100: glClearColor(0.5f, 0.2f, 0.3f, 1.0f)
ClearColor ==
    /\ pc = "clearColor"
    /\ clearColor' = ClearColorValue
    /\ frameSteps' = Append(frameSteps, "glClearColor")
    /\ pc' = "clear"
    /\ UNCHANGED <<initResult, hints, window, contextCurrent, gladResult, viewport,
                   callback, shouldClose, keyState, out, ret, terminateCalls>>
    /\ UNCHANGED envVars
    /\ UNCHANGED <<bootLog, iter, resizeLog, cbContexts, osCloseSeen, escSeenIter>>

\* line 102: glClear(GL_COLOR_BUFFER_BIT | GL_DEPTH_BUFFER_BIT)
Clear ==
    /\ pc = "clear"
    /\ frameSteps' = Append(frameSteps, "glClear")
    /\ pc' = "swap"
    /\ UNCHANGED progVars
    /\ UNCHANGED envVars
    /\ UNCHANGED <<bootLog, iter, resizeLog, cbContexts, osCloseSeen, escSeenIter>>

\* line 111: glfwSwapBuffers(window)
SwapBuffers ==
    /\ pc = "swap"
    /\ frameSteps' = Append(frameSteps, "glfwSwapBuffers")
    /\ pc' = "poll"
    /\ UNCHANGED progVars
    /\ UNCHANGED envVars
    /\ UNCHANGED <<bootLog, iter, resizeLog, cbContexts, osCloseSeen, escSeenIter>>

\* line 122, glfwPollEvents(): dispatch the oldest pending event.  A resize
\* event calls the registered callback (lines 132-134), a key event updates the
\* cached key state, a close event sets the close-requested flag.
PollDispatch ==
    /\ pc = "poll"
    /\ events # <<>>
    /\ LET e == Head(events) IN
          /\ viewport' = IF e.type = "resize" /\ callback = "framebuffer_size_callback"
                         THEN framebuffer_size_callback(viewport, e.w, e.h)
                         ELSE viewport
          /\ resizeLog' = IF e.type = "resize" /\ callback = "framebuffer_size_callback"
                          THEN Append(resizeLog, <<e.w, e.h>>)
                          ELSE resizeLog
          /\ cbContexts' = IF e.type = "resize" /\ callback = "framebuffer_size_callback"
                           THEN cbContexts \cup {pc}
                           ELSE cbContexts
          /\ keyState' = IF e.type = "key" THEN e.state ELSE keyState
          /\ shouldClose' = IF e.type = "close" THEN TRUE ELSE shouldClose
          /\ osCloseSeen' = (osCloseSeen \/ e.type = "close")
    /\ events' = Tail(events)
    /\ UNCHANGED <<pc, initResult, hints, window, contextCurrent, gladResult,
                   callback, clearColor, out, ret, terminateCalls>>
    /\ UNCHANGED <<fbSize, physKey, nEvents, escPressIter>>
    /\ UNCHANGED <<bootLog, iter, frameSteps, escSeenIter>>

\* line 122, glfwPollEvents() returns: no event is pending
PollReturn ==
    /\ pc = "poll"
    /\ events = <<>>
    /\ frameSteps' = Append(frameSteps, "glfwPollEvents")
    /\ pc' = "loopTest"
    /\ UNCHANGED progVars
    /\ UNCHANGED envVars
    /\ UNCHANGED <<bootLog, iter, resizeLog, cbContexts, osCloseSeen, escSeenIter>>

\* line 126: glfwTerminate()
Terminate ==
    /\ pc = "terminate"
    /\ terminateCalls' = terminateCalls + 1
    /\ window' = "DESTROYED"
    /\ contextCurrent' = FALSE
    /\ pc' = "return"
    /\ UNCHANGED <<initResult, hints, gladResult, viewport, callback, shouldClose, keyState,
                   clearColor, out, ret>>
    /\ UNCHANGED envVars
    /\ UNCHANGED obsVars

\* line 128: return 0
Return ==
    /\ pc = "return"
    /\ ret' = <<0>>
    /\ pc' = "done"
    /\ UNCHANGED <<initResult, hints, window, contextCurrent, gladResult, viewport,
                   callback, shouldClose, keyState, clearColor, out, terminateCalls>>
    /\ UNCHANGED envVars
    /\ UNCHANGED obsVars

----------------------------------------------------------------------------
(* The window system.  Events are produced while the window exists and the *)
(* process runs; they are seen by the program only through glfwPollEvents. *)

WindowAlive == window = "WIN" /\ pc # "done"

\* the user or the window manager resizes the window
OSResize ==
    /\ WindowAlive
    /\ nEvents < MaxEvents
    /\ \E s \in ResizeSizes :
          /\ fbSize' = s
          /\ events' = Append(events, [type |-> "resize", w |-> s[1], h |-> s[2]])
    /\ nEvents' = nEvents + 1
    /\ UNCHANGED <<pc, physKey, escPressIter>>
    /\ UNCHANGED progVars
    /\ UNCHANGED obsVars

\* the user presses Escape
OSKeyPress ==
    /\ WindowAlive
    /\ nEvents < MaxEvents
    /\ physKey = "RELEASE"
    /\ physKey' = "PRESS"
    /\ events' = Append(events, [type |-> "key", state |-> "PRESS"])
    /\ escPressIter' = IF pc \in BodyPcs THEN iter ELSE escPressIter
    /\ nEvents' = nEvents + 1
    /\ UNCHANGED <<pc, fbSize>>
    /\ UNCHANGED progVars
    /\ UNCHANGED obsVars

\* the user releases Escape
OSKeyRelease ==
    /\ WindowAlive
    /\ nEvents < MaxEvents
    /\ physKey = "PRESS"
    /\ physKey' = "RELEASE"
    /\ events' = Append(events, [type |-> "key", state |-> "RELEASE"])
    /\ nEvents' = nEvents + 1
    /\ UNCHANGED <<pc, fbSize, escPressIter>>
    /\ UNCHANGED progVars
    /\ UNCHANGED obsVars

\* the user or the window manager asks the window to close
OSClose ==
    /\ WindowAlive
    /\ nEvents < MaxEvents
    /\ events' = Append(events, [type |-> "close"])
    /\ nEvents' = nEvents + 1
    /\ UNCHANGED <<pc, fbSize, physKey, escPressIter>>
    /\ UNCHANGED progVars
    /\ UNCHANGED obsVars

----------------------------------------------------------------------------
Next ==
    \/ GlfwInit
    \/ WindowHints
    \/ CreateWindow
    \/ WindowFailed
    \/ MakeContextCurrent
    \/ LoadGL
    \/ GladFailed
    \/ InitialViewport
    \/ SetFramebufferSizeCallback
    \/ LoopEnter
    \/ LoopExit
    \/ ProcessInput
    \/ ClearColor
    \/ Clear
    \/ SwapBuffers
    \/ PollDispatch
    \/ PollReturn
    \/ Terminate
    \/ Return
    \/ OSResize
    \/ OSKeyPress
    \/ OSKeyRelease
    \/ OSClose

Spec == Init /\ [][Next]_vars

----------------------------------------------------------------------------
(* Properties *)

Last(q) == q[Len(q)]

IsPrefix(s, t) == Len(s) <= Len(t) /\ s = SubSeq(t, 1, Len(s))

InLog(name, log) == \E i \in 1..Len(log) : log[i] = name

NoPendingResize == \A i \in 1..Len(events) : events[i].type # "resize"

BootstrapDone == bootLog = BootOrder

\* C1: if glfwCreateWindow returns NULL, the process prints "Window Creation
\* Failed", returns -1 and never enters the loop: no input check, clear, swap
\* or poll runs, the context is never made current and the function table is
\* never loaded.
C1_WindowCreationFailure ==
    window = "NULL" =>
        /\ pc \in {"windowFailed", "done"}
        /\ iter = 0 /\ frameSteps = <<>> /\ clearColor = <<>>
        /\ ~contextCurrent /\ ~InLog("glfwMakeContextCurrent", bootLog)
        /\ gladResult = "none" /\ ~InLog("gladLoadGLLoader", bootLog)
        /\ (pc = "done" => out = <<MsgWindowFailed>> /\ ret = <<-1>>)

\* C1 witness: the library was initialized, window creation failed and the
\* process has returned.
C1_Witness == window = "NULL" /\ initResult = "ok" /\ pc = "done"

\* C2: if gladLoadGLLoader fails after the window was created and its context
\* made current, the process prints "Failed to initialized GLAD", returns -1
\* without entering the loop and without any glfwTerminate call; the window is
\* never released.
C2_LoaderFailure ==
    gladResult = "fail" =>
        /\ pc \in {"gladFailed", "done"}
        /\ InLog("glfwMakeContextCurrent", bootLog) /\ contextCurrent
        /\ iter = 0 /\ frameSteps = <<>> /\ viewport = <<>>
        /\ terminateCalls = 0 /\ window = "WIN"
        /\ (pc = "done" => out = <<MsgGladFailed>> /\ ret = <<-1>>)

\* C2 witness: the loader failed and the process has returned.
C2_Witness == gladResult = "fail" /\ pc = "done" /\ ret = <<-1>>

\* C3: normal termination returns 0 and calls glfwTerminate exactly once: when
\* the loop exits because the close-requested flag is set (by Escape or by a
\* close request dispatched by the event poll), glfwTerminate is called once,
\* after the last iteration and before main returns 0; 0 is returned on no
\* other path.
C3_NormalTermination ==
    /\ (pc \in BodyPcs \cup {"loopTest", "terminate"} => terminateCalls = 0 /\ ret = <<>>)
    /\ (pc \in {"terminate", "return"} => shouldClose /\ iter >= 1 /\ frameSteps = FrameOrder)
    /\ (pc = "return" => terminateCalls = 1 /\ ret = <<>>)
    /\ (pc = "done" /\ BootstrapDone => ret = <<0>>)
    /\ (ret = <<0>> =>
            /\ pc = "done" /\ terminateCalls = 1
            /\ shouldClose /\ (escSeenIter # 0 \/ osCloseSeen)
            /\ BootstrapDone /\ gladResult = "ok" /\ iter >= 1
            /\ out = <<>>)

\* C3 witness: the process returned 0 after a close request of the window
\* system alone.
C3_Witness == ret = <<0>> /\ osCloseSeen /\ escSeenIter = 0

\* C4 as claimed: Escape pressed during an iteration, at any point of it,
\* keeps the loop from executing another iteration's body after that one.
C4_NoBodyAfterPressIteration == escPressIter # 0 => iter <= escPressIter

\* C4 as amended: when the input check of an iteration samples Escape as
\* pressed, it sets the close-requested flag and no further iteration's body
\* runs; the flag is set by nothing but that input check or a dispatched close
\* request, so a key press dispatched by the event poll does not set it.
C4_SampledEscapeCloses ==
    /\ (escSeenIter # 0 => shouldClose /\ iter = escSeenIter)
    /\ (shouldClose => escSeenIter # 0 \/ osCloseSeen)
    /\ (pc \in {"clearColor", "clear", "swap", "poll"} /\ escSeenIter = 0 /\ ~osCloseSeen
            => ~shouldClose)

\* C4 witness: Escape was pressed during iteration 1, sampled by the input
\* check of iteration 2, and the loop has ended.
C4_Witness == escPressIter = 1 /\ escSeenIter = 2 /\ pc = "terminate"

\* C5: once a resize event (w, h) has been dispatched the viewport is
\* (0, 0, w, h), hence equal to the window's drawable size whenever no resize
\* event is pending; the callback run again with the same (w, h) leaves the
\* viewport as it is.
C5_ViewportFollowsResize ==
    resizeLog # <<>> =>
        /\ viewport = <<0, 0, Last(resizeLog)[1], Last(resizeLog)[2]>>
        /\ (NoPendingResize => viewport = <<0, 0, fbSize[1], fbSize[2]>>)

C5_Idempotent ==
    [][(/\ Len(resizeLog') = Len(resizeLog) + 1
        /\ viewport = <<0, 0, Last(resizeLog')[1], Last(resizeLog')[2]>>)
       => viewport' = viewport]_vars

C5_ViewportSynchronized == []C5_ViewportFollowsResize /\ C5_Idempotent

\* C5 witness: the callback has run twice in a row with the same size, which
\* is not the initial one.
C5_Witness ==
    /\ Len(resizeLog) >= 2
    /\ resizeLog[Len(resizeLog)] = resizeLog[Len(resizeLog) - 1]
    /\ viewport = <<0, 0, 1024, 768>>
    /\ NoPendingResize

\* C6: when the loop is first entered the viewport is (0, 0, 800, 600); no
\* resize event alters it between the initial glViewport call and the first
\* iteration (nor before the first event poll).
C6_InitialViewport ==
    (\/ pc = "setCallback"
     \/ (pc = "loopTest" /\ iter = 0)
     \/ (iter = 1 /\ pc \in {"processInput", "clearColor", "clear", "swap"}))
        => viewport = <<0, 0, 800, 600>> /\ resizeLog = <<>>

\* C6 witness: the first iteration starts while a resize event is pending and
\* the drawable size is no longer 800 x 600.
C6_Witness ==
    /\ iter = 1 /\ pc = "processInput"
    /\ ~NoPendingResize /\ fbSize # <<800, 600>>

\* C7 as claimed: if glfwInit fails the process prints a message and exits
\* nonzero without setting hints, creating a window or entering the loop.
C7_InitFailureStopsBootstrap ==
    initResult = "fail" =>
        /\ ~InLog("glfwWindowHint", bootLog)
        /\ ~InLog("glfwCreateWindow", bootLog)
        /\ iter = 0
        /\ (pc = "done" => out # <<>> /\ ret # <<0>>)

\* C8 as claimed: on the window-creation failure path no glfwTerminate call
\* is made between detecting the NULL handle and returning -1.  The case taken
\* is the one with a successful glfwInit, so that the ignored result of
\* glfwInit plays no part.
C8_NoTeardownOnCreationFailure ==
    window = "NULL" /\ initResult = "ok" /\ pc = "done"
        => terminateCalls = 0 /\ ret = <<-1>>

\* C8 as amended: on the window-creation failure path glfwTerminate is called
\* exactly once, after the NULL handle is detected and before returning -1.
C8_TeardownOnCreationFailure ==
    /\ (window = "NULL" /\ pc = "windowFailed" => terminateCalls = 0 /\ ret = <<>>)
    /\ (window = "NULL" /\ pc = "done" => terminateCalls = 1 /\ ret = <<-1>>)

\* C8 witness: window creation failed with the hints in effect, glfwTerminate
\* has run once and the process has returned -1.
C8_Witness ==
    /\ window = "NULL" /\ hints = RequestedHints
    /\ pc = "done" /\ terminateCalls = 1 /\ ret = <<-1>>

\* C9: each iteration runs input check, glClearColor, glClear, swap, poll in
\* that order, once each; the resize callback runs only inside the event poll;
\* the close-requested flag is tested only between iterations, so an iteration
\* whose input check sets it still clears, swaps and polls.
C9_FrameOrder ==
    /\ IsPrefix(frameSteps, FrameOrder)
    /\ (pc = "processInput" => Len(frameSteps) = 0)
    /\ (pc = "clearColor" => Len(frameSteps) = 1)
    /\ (pc = "clear" => Len(frameSteps) = 2 /\ clearColor = ClearColorValue)
    /\ (pc = "swap" => Len(frameSteps) = 3)
    /\ (pc = "poll" => Len(frameSteps) = 4)
    /\ (iter >= 1 /\ pc \in {"loopTest", "terminate", "return", "done"}
            => frameSteps = FrameOrder)
    /\ (iter = 0 => frameSteps = <<>>)
    /\ cbContexts \subseteq {"poll"}

\* C9 witness: an iteration whose input check set the flag has completed all
\* its steps, and the resize callback has run during an event poll.
C9_Witness ==
    /\ pc = "loopTest" /\ iter >= 1 /\ escSeenIter = iter
    /\ frameSteps = FrameOrder /\ cbContexts = {"poll"}

\* C10: the bootstrap calls happen at most once each and in the order
\* glfwInit, hints, create window, make current, load, glViewport, register
\* callback; the loop starts only after all succeeded; no viewport or clear
\* command is issued before the context is current and the loader succeeded.
C10_BootstrapOrder ==
    /\ IsPrefix(bootLog, BootOrder)
    /\ (iter >= 1 \/ pc \in BodyPcs \cup {"loopTest", "terminate", "return"} =>
            /\ BootstrapDone
            /\ initResult = "ok" /\ hints = RequestedHints
            /\ window # "NULL" /\ window # "none"
            /\ gladResult = "ok"
            /\ callback = "framebuffer_size_callback")
    /\ (viewport # <<>> \/ clearColor # <<>> \/ resizeLog # <<>> \/ InLog("glClear", frameSteps)
            => InLog("glfwMakeContextCurrent", bootLog) /\ gladResult = "ok")

\* C10 witness: the first iteration starts with the whole bootstrap done.
C10_Witness == iter = 1 /\ pc = "clearColor" /\ BootstrapDone /\ viewport # <<>>

====
